---- MODULE Spec2Model ----
(***************************************************************************)
(* Model of the audio-encode components (AudioProcessor.tsx,               *)
(* AudioEditor.tsx): the encoding-code generator and parser, the           *)
(* segmenter, the Split / OddEven reorderings and their inverses, the      *)
(* batch assembler and the buffer reversal.                                *)
(*                                                                         *)
(* Numbers.  A JavaScript number is a record [num, den]: the value         *)
(* num/den with den a power of ten, kept in lowest decimal form; den = 0   *)
(* is NaN.  Arithmetic is exact (no binary rounding).                      *)
(* Strings.  A JavaScript string is a sequence of one-character strings.   *)
(* Audio.    A sample is a positive integer label, 0 is silence (the       *)
(* initial content of a new Float32Array / AudioBuffer).                   *)
(***************************************************************************)
EXTENDS Integers, Sequences, FiniteSets, TLC

(***************************************************************************)
(* Numbers                                                                 *)
(***************************************************************************)
NaN == [num |-> 0, den |-> 0]

IsNaN(x) == x.den = 0

RECURSIVE Normalize(_, _)
Normalize(n, d) ==
  IF d > 1 /\ n % 10 = 0 THEN Normalize(n \div 10, d \div 10)
  ELSE [num |-> n, den |-> d]

IntNum(n) == [num |-> n, den |-> 1]

Dec(n, d) == Normalize(n, d)

\* x < y, x > y on JavaScript numbers: false when either side is NaN
NumLt(x, y) == ~IsNaN(x) /\ ~IsNaN(y) /\ x.num * y.den < y.num * x.den

NumGt(x, y) == NumLt(y, x)

RECURSIVE Pow10(_)
Pow10(k) == IF k <= 0 THEN 1 ELSE 10 * Pow10(k - 1)

RECURSIVE Log10(_)
Log10(d) == IF d <= 1 THEN 0 ELSE 1 + Log10(d \div 10)

Min(a, b) == IF a <= b THEN a ELSE b

Max(a, b) == IF a >= b THEN a ELSE b

\* Math.ceil(a / b) and Math.floor(a / b) for integers a >= 0, b > 0
CeilDiv(a, b) == (a + b - 1) \div b

FloorDiv(a, b) == a \div b

(***************************************************************************)
(* Strings                                                                 *)
(***************************************************************************)
DigitChars == <<"0", "1", "2", "3", "4", "5", "6", "7", "8", "9">>

Digits == {DigitChars[i] : i \in 1..Len(DigitChars)}

DigitVal(c) == (CHOOSE i \in 1..Len(DigitChars) : DigitChars[i] = c) - 1

\* hexadecimal digits: 0-9, a-f, A-F
HexChars == <<"0", "1", "2", "3", "4", "5", "6", "7", "8", "9",
              "a", "b", "c", "d", "e", "f">>

HexUpper == <<"0", "1", "2", "3", "4", "5", "6", "7", "8", "9",
              "A", "B", "C", "D", "E", "F">>

HexDigits == {HexChars[i] : i \in 1..Len(HexChars)} \cup {HexUpper[i] : i \in 1..Len(HexUpper)}

HexVal(c) == (CHOOSE i \in 1..Len(HexChars) : HexChars[i] = c \/ HexUpper[i] = c) - 1

Spaces == {" "}

\* s.slice(from) with a 0-based index from >= 0
Drop(s, k) == SubSeq(s, k + 1, Len(s))

Take(s, k) == SubSeq(s, 1, Min(k, Len(s)))

\* length of the longest prefix of s whose characters all satisfy P
PrefixLen(s, chars) ==
  CHOOSE k \in 0..Len(s) :
    /\ \A i \in 1..k : s[i] \in chars
    /\ (k = Len(s) \/ s[k + 1] \notin chars)

RECURSIVE DigitsValue(_)
DigitsValue(s) ==
  IF s = <<>> THEN 0 ELSE 10 * DigitsValue(Take(s, Len(s) - 1)) + DigitVal(s[Len(s)])

RECURSIVE HexValue(_)
HexValue(s) ==
  IF s = <<>> THEN 0 ELSE 16 * HexValue(Take(s, Len(s) - 1)) + HexVal(s[Len(s)])

RECURSIVE IntToString(_)
IntToString(n) ==
  IF n < 10 THEN <<DigitChars[n + 1]>>
  ELSE IntToString(n \div 10) \o <<DigitChars[(n % 10) + 1]>>

RECURSIVE Zeros(_)
Zeros(k) == IF k <= 0 THEN <<>> ELSE <<"0">> \o Zeros(k - 1)

\* the fields of s.split(sep): one more than the occurrences of sep
RECURSIVE SplitOn(_, _)
SplitOn(s, sep) ==
  IF \A i \in 1..Len(s) : s[i] # sep THEN <<s>>
  ELSE LET p == CHOOSE i \in 1..Len(s) :
                  s[i] = sep /\ \A j \in 1..(i - 1) : s[j] # sep
       IN  <<Take(s, p - 1)>> \o SplitOn(Drop(s, p), sep)

\* parseFloat(s): leading blanks, a sign, digits [. digits] or . digits, then an
\* exponent when e/E is followed by [sign] digits; NaN when no digit is found.
\* The value: mantissa digits m, fl of them after the point, exponent xv
ParseFloatValue(m, il, fl, xv, neg) ==
  LET sc  == fl - xv
      mag == IF sc >= 0 THEN Normalize(m, Pow10(sc)) ELSE Normalize(m * Pow10(0 - sc), 1)
  IN  IF il = 0 /\ fl = 0 THEN NaN
      ELSE IF neg THEN [num |-> 0 - mag.num, den |-> mag.den] ELSE mag

\* the exponent digits y (after e and its sign), negative when xneg
ParseFloatExponentValue(y, xneg) ==
  LET xl == PrefixLen(y, Digits)
  IN  IF xl = 0 THEN 0
      ELSE IF xneg THEN 0 - DigitsValue(Take(y, xl)) ELSE DigitsValue(Take(y, xl))

\* w: what follows the mantissa
ParseFloatExponent(w) ==
  IF w # <<>> /\ (w[1] = "e" \/ w[1] = "E")
    THEN IF Len(w) >= 2 /\ (w[2] = "-" \/ w[2] = "+")
           THEN ParseFloatExponentValue(Drop(w, 2), w[2] = "-")
           ELSE ParseFloatExponentValue(Drop(w, 1), FALSE)
    ELSE 0

\* u: the text after the sign, il: the length of its leading digits
ParseFloatFraction(u, il, neg) ==
  LET dot == Len(u) > il /\ u[il + 1] = "."
      fl  == IF dot THEN PrefixLen(Drop(u, il + 1), Digits) ELSE 0
  IN  ParseFloatValue(DigitsValue(Take(u, il) \o SubSeq(u, il + 2, il + 1 + fl)), il, fl,
                      ParseFloatExponent(IF dot /\ (il > 0 \/ fl > 0)
                                           THEN Drop(u, il + 1 + fl) ELSE Drop(u, il)),
                      neg)

ParseFloatSigned(t) ==
  IF t # <<>> /\ (t[1] = "-" \/ t[1] = "+")
    THEN ParseFloatFraction(Drop(t, 1), PrefixLen(Drop(t, 1), Digits), t[1] = "-")
    ELSE ParseFloatFraction(t, PrefixLen(t, Digits), FALSE)

parseFloat(s) == ParseFloatSigned(Drop(s, PrefixLen(s, Spaces)))

\* parseInt(s) with no radix: leading blanks, a sign, then hexadecimal digits
\* after 0x / 0X, decimal digits otherwise; NaN when no digit is found
parseInt(s) ==
  LET t   == Drop(s, PrefixLen(s, Spaces))
      neg == t # <<>> /\ t[1] = "-"
      sgn == t # <<>> /\ (t[1] = "-" \/ t[1] = "+")
      u   == IF sgn THEN Drop(t, 1) ELSE t
      hex == Len(u) >= 2 /\ u[1] = "0" /\ (u[2] = "x" \/ u[2] = "X")
      h   == Drop(u, 2)
      hl  == IF hex THEN PrefixLen(h, HexDigits) ELSE 0
      dl  == PrefixLen(u, Digits)
      mag == IF hex THEN HexValue(Take(h, hl)) ELSE DigitsValue(Take(u, dl))
  IN  IF (hex /\ hl = 0) \/ (~hex /\ dl = 0) THEN NaN
      ELSE IntNum(IF neg THEN 0 - mag ELSE mag)

\* Number::toString(x) as used by a template literal `${x}`, for x = n / 10^k,
\* n >= 0 with decimal digits ds: plain decimal notation from 1e-6 up,
\* exponential notation d.ddde-x below
MagnitudeToString(n, d, k, ds) ==
  IF d = 1 THEN ds
  ELSE IF Len(ds) + 5 >= k
    THEN IntToString(n \div d) \o <<".">>
         \o Zeros(k - Len(IntToString(n % d))) \o IntToString(n % d)
  ELSE <<ds[1]>> \o (IF Len(ds) > 1 THEN <<".">> \o Drop(ds, 1) ELSE <<>>)
                 \o <<"e", "-">> \o IntToString(k - Len(ds) + 1)

NumberToString(x) ==
  IF IsNaN(x) THEN <<"N", "a", "N">>
  ELSE IF x.num < 0
    THEN <<"-">> \o MagnitudeToString(0 - x.num, x.den, Log10(x.den), IntToString(0 - x.num))
    ELSE MagnitudeToString(x.num, x.den, Log10(x.den), IntToString(x.num))

(***************************************************************************)
(* State of the AudioProcessor component                                   *)
(***************************************************************************)
VARIABLES
  encodingType,        \* 'none' | 'split' | 'oddEven'
  interval,            \* number
  isReversed,
  numberOfParts,       \* number
  decodingType,
  decodeNumberOfParts,
  decodeInterval,
  isDecodeReversed,
  decodeInputCode,     \* string
  isValidCode

uiVars == <<encodingType, interval, isReversed, numberOfParts, decodingType,
            decodeNumberOfParts, decodeInterval, isDecodeReversed,
            decodeInputCode, isValidCode>>

EncodingTypes == {"none", "split", "oddEven"}

\* useState initial values
UiInit ==
  /\ encodingType = "none"
  /\ interval = IntNum(1)
  /\ isReversed = FALSE
  /\ numberOfParts = IntNum(2)
  /\ decodingType = "none"
  /\ decodeNumberOfParts = IntNum(2)
  /\ decodeInterval = IntNum(1)
  /\ isDecodeReversed = FALSE
  /\ decodeInputCode = <<>>
  /\ isValidCode = TRUE

(***************************************************************************)
(* Encoding code: generator and parser                                     *)
(***************************************************************************)
TypePrefix(type) ==
  IF type = "split" THEN <<"s">> ELSE IF type = "oddEven" THEN <<"o", "e">> ELSE <<>>

PartsCode(type, parts) ==
  IF type = "split" THEN <<"b">> \o NumberToString(parts) ELSE <<"b">>

IntervalCode(intervalValue) == <<"b">> \o NumberToString(intervalValue)

\* a reverse code with a 'b' in front of the flag
ReverseCodeWithSeparator(reversed) == IF reversed THEN <<"b", "t">> ELSE <<"b", "f">>

ReverseCode(reversed) == IF reversed THEN <<"t">> ELSE <<"f">>

GenerateCode(type, parts, intervalValue, reversed) ==
  IF TypePrefix(type) = <<>> THEN <<>>
  ELSE TypePrefix(type) \o PartsCode(type, parts) \o IntervalCode(intervalValue)
       \o ReverseCode(reversed)

\* the code the encode panel shows in the current state
generateEncodingCode == GenerateCode(encodingType, numberOfParts, interval, isReversed)

MinInterval == Dec(1, 1000)

MaxInterval == IntNum(10)

MinParts == IntNum(2)

MaxParts == IntNum(10)

\* the outcome of parseEncodingCode: the return value (ok) and, on the accepting
\* paths, the values handed to the setters; a rejecting path calls no setter
Rejected == [ok |-> FALSE]

AcceptedSplit(parts, parsedInterval, reverse) ==
  [ok |-> TRUE, type |-> "split", setsParts |-> TRUE, parts |-> parts,
   interval |-> parsedInterval, reversed |-> (reverse = "t")]

AcceptedOddEven(parsedInterval, reverse) ==
  [ok |-> TRUE, type |-> "oddEven", setsParts |-> FALSE, parts |-> NaN,
   interval |-> parsedInterval, reversed |-> (reverse = "t")]

\* the type and the parts, with parts accepted from 1 up
ParseTypeAndPartsFromOne(type, partsStr, parsedParts, parsedInterval, reverse) ==
  IF type = <<"s">> THEN
    IF IsNaN(parsedParts) \/ NumLt(parsedParts, IntNum(1)) \/ NumGt(parsedParts, MaxParts)
      THEN Rejected
      ELSE AcceptedSplit(parsedParts, parsedInterval, reverse)
  ELSE IF type = <<"o", "e">> THEN
    IF partsStr # <<>> THEN Rejected ELSE AcceptedOddEven(parsedInterval, reverse)
  ELSE Rejected

\* lines 212-223: the type and the parts
ParseTypeAndParts(type, partsStr, parsedParts, parsedInterval, reverse) ==
  IF type = <<"s">> THEN
    IF IsNaN(parsedParts) \/ NumLt(parsedParts, MinParts) \/ NumGt(parsedParts, MaxParts)
      THEN Rejected
      ELSE AcceptedSplit(parsedParts, parsedInterval, reverse)
  ELSE IF type = <<"o", "e">> THEN
    IF partsStr # <<>> THEN Rejected ELSE AcceptedOddEven(parsedInterval, reverse)
  ELSE Rejected

\* lines 204-210: the reverse flag and the interval
ParseFlagAndInterval(type, partsStr, reverse, parsedInterval) ==
  IF reverse # "t" /\ reverse # "f" THEN Rejected
  ELSE IF IsNaN(parsedInterval) \/ NumLt(parsedInterval, MinInterval)
          \/ NumGt(parsedInterval, MaxInterval) THEN Rejected
  ELSE ParseTypeAndParts(type, partsStr, parseInt(partsStr), parsedInterval, reverse)

\* intervalWithReverse.slice(-1)
LastCharacter(str) == str[Len(str)]

\* intervalWithReverse.slice(0, -1)
AllButLast(str) == Take(str, Len(str) - 1)

\* lines 201-202
ParseFields(type, partsStr, intervalWithReverse) ==
  IF type = <<>> \/ intervalWithReverse = <<>> THEN Rejected
  ELSE ParseFlagAndInterval(type, partsStr, LastCharacter(intervalWithReverse),
                            parseFloat(AllButLast(intervalWithReverse)))

\* lines 198-199
ParseSplit(fields) ==
  IF Len(fields) # 3 THEN Rejected ELSE ParseFields(fields[1], fields[2], fields[3])

ParseCode(code) == ParseSplit(SplitOn(code, "b"))

\* the setters, with a rejection putting the decoding type back to 'none'
ApplyParseClearingType(r) ==
  IF r.ok
    THEN /\ decodingType' = r.type
         /\ decodeNumberOfParts' = IF r.setsParts THEN r.parts ELSE decodeNumberOfParts
         /\ decodeInterval' = r.interval
         /\ isDecodeReversed' = r.reversed
         /\ isValidCode' = TRUE
    ELSE /\ decodingType' = "none"
         /\ UNCHANGED <<decodeNumberOfParts, decodeInterval, isDecodeReversed>>
         /\ isValidCode' = FALSE

\* the setters called for an outcome r, and the value returned to the effect
ApplyParse(r) ==
  IF r.ok
    THEN /\ decodingType' = r.type
         /\ decodeNumberOfParts' = IF r.setsParts THEN r.parts ELSE decodeNumberOfParts
         /\ decodeInterval' = r.interval
         /\ isDecodeReversed' = r.reversed
         /\ isValidCode' = TRUE
    ELSE /\ UNCHANGED <<decodingType, decodeNumberOfParts, decodeInterval,
                        isDecodeReversed>>
         /\ isValidCode' = FALSE

\* setIsValidCode(parseEncodingCode(code))
parseEncodingCode(code) == ApplyParse(ParseCode(code))

(***************************************************************************)
(* The encode and decode panels: input handlers                            *)
(***************************************************************************)
\* values typed into the "Number of Parts" input (e.target.value)
PartsInputs == { <<>>, <<"5">> }

\* values typed into the "Interval (seconds)" input
IntervalInputs == { <<>>, <<"0", ".", "2">> }

\* codes typed into the "Enter Encoding Code" input
CodeInputs ==
  { <<>>,
    <<"s", "b", "5", "b", "0", ".", "2", "t">>,
    <<"s", "b", "5", "b", "0", ".", "2", "b", "t">>,
    <<"o", "e", "b", "b", "1", "f">>,
    <<"o", "e", "b", "b", "0", ".", "2", "t">>,
    <<"o", "e", "b", "b", "0", ".", "2", "b", "t">>,
    <<"s", "b", "1", "b", "0", ".", "2", "b", "t">>,
    <<"s", "b", "5", "b", "0", ".", "2", "b", "x">>,
    <<"x", "b", "5", "b", "0", ".", "2", "b", "t">>,
    <<"s", "b", "1", "b", "0", ".", "2", "t">>,
    <<"s", "b", "5", "b", "0", ".", "2", "x">>,
    <<"x", "b", "5", "b", "0", ".", "2", "t">> }

\* Math.max(2, x)
MathMax2(x) == IF IsNaN(x) THEN NaN ELSE IF NumLt(x, IntNum(2)) THEN IntNum(2) ELSE x

\* <select> onChange
SetEncodingType(t) ==
  /\ encodingType' = t
  /\ UNCHANGED <<interval, isReversed, numberOfParts, decodingType, decodeNumberOfParts,
                 decodeInterval, isDecodeReversed, decodeInputCode, isValidCode>>

\* "Number of Parts" onChange; the input is rendered for 'split' only
SetNumberOfParts(v) ==
  /\ encodingType = "split"
  /\ numberOfParts' = MathMax2(parseInt(v))
  /\ UNCHANGED <<encodingType, interval, isReversed, decodingType, decodeNumberOfParts,
                 decodeInterval, isDecodeReversed, decodeInputCode, isValidCode>>

\* "Interval (seconds)" onChange
SetInterval(v) ==
  /\ interval' = parseFloat(v)
  /\ UNCHANGED <<encodingType, isReversed, numberOfParts, decodingType, decodeNumberOfParts,
                 decodeInterval, isDecodeReversed, decodeInputCode, isValidCode>>

\* "Reverse Audio" onChange
SetIsReversed(b) ==
  /\ isReversed' = b
  /\ UNCHANGED <<encodingType, interval, numberOfParts, decodingType, decodeNumberOfParts,
                 decodeInterval, isDecodeReversed, decodeInputCode, isValidCode>>

\* code input onChange, with the effect on [decodeInputCode] that follows it
SetDecodeInputCode(code) ==
  /\ code # decodeInputCode
  /\ decodeInputCode' = code
  /\ IF code # <<>>
       THEN parseEncodingCode(code)
       ELSE /\ isValidCode' = TRUE
            /\ UNCHANGED <<decodingType, decodeNumberOfParts, decodeInterval,
                           isDecodeReversed>>
  /\ UNCHANGED <<encodingType, interval, isReversed, numberOfParts>>

UiNext ==
  \/ \E t \in EncodingTypes : SetEncodingType(t)
  \/ \E v \in PartsInputs : SetNumberOfParts(v)
  \/ \E v \in IntervalInputs : SetInterval(v)
  \/ \E b \in BOOLEAN : SetIsReversed(b)
  \/ \E code \in CodeInputs \cup {generateEncodingCode} : SetDecodeInputCode(code)

(***************************************************************************)
(* Audio buffers, segments, reordering, assembly, reversal                 *)
(*                                                                         *)
(* An AudioBuffer is [sampleRate, numberOfChannels, length, channels]; its *)
(* duration is length / sampleRate seconds.  Times of the segments cut     *)
(* from a buffer of rate sr with a segment duration num/den are counted in *)
(* ticks of 1 / (sr * den) second, so that a sample lasts den ticks, the   *)
(* segment duration is num * sr ticks and every product is an integer.     *)
(***************************************************************************)
MAX_SEGMENT_SIZE == 1048576

TicksPerSample(segmentDuration) == segmentDuration.den

DurationTicks(audioBuffer, segmentDuration) == audioBuffer.length * segmentDuration.den

IntervalTicks(audioBuffer, segmentDuration) == segmentDuration.num * audioBuffer.sampleRate

\* audioBuffer.copyFromChannel(new Float32Array(len), channel, offset)
CopyFromChannel(channelData, offset, len) ==
  [j \in 1..len |-> IF offset + j <= Len(channelData) THEN channelData[offset + j] ELSE 0]

\* the segment count taken as floor + 1
NumberOfSegmentsFloorPlusOne(audioBuffer, segmentDuration) ==
  IF IsNaN(segmentDuration) \/ segmentDuration.num <= 0 THEN 0
  ELSE FloorDiv(DurationTicks(audioBuffer, segmentDuration),
                IntervalTicks(audioBuffer, segmentDuration)) + 1

\* Math.ceil(duration / segmentDuration); the loop runs for a positive count only
NumberOfSegments(audioBuffer, segmentDuration) ==
  IF IsNaN(segmentDuration) \/ segmentDuration.num <= 0 THEN 0
  ELSE CeilDiv(DurationTicks(audioBuffer, segmentDuration),
               IntervalTicks(audioBuffer, segmentDuration))

\* AudioProcessor.createAudioSegments, for a segment duration that is not 0
\* (with 0 and a non-empty buffer the count is Infinity)
createAudioSegments(audioBuffer, segmentDuration) ==
  LET tps   == TicksPerSample(segmentDuration)
      I     == IntervalTicks(audioBuffer, segmentDuration)
      D     == DurationTicks(audioBuffer, segmentDuration)
      numberOfSegments == NumberOfSegments(audioBuffer, segmentDuration)
      maxSamplesPerSegment ==
        Min(FloorDiv(I, tps), MAX_SEGMENT_SIZE \div audioBuffer.numberOfChannels)
      Segment(i) ==
        LET start == i * I
            end   == Min((i + 1) * I, D)
            segmentLength == Min(FloorDiv(end - start, tps), maxSamplesPerSegment)
        IN  [start |-> start,
             end   |-> end,
             data  |-> [c \in 1..audioBuffer.numberOfChannels |->
                          CopyFromChannel(audioBuffer.channels[c],
                                          FloorDiv(start, tps), segmentLength)]]
  IN  [k \in 1..numberOfSegments |-> Segment(k - 1)]

\* AudioEditor.createAudioSegments(totalDuration), spans only, in ticks
EditorCreateAudioSegments(totalDuration, intervalTicks) ==
  LET segmentCount == FloorDiv(totalDuration, intervalTicks)
      full == [k \in 1..segmentCount |->
                 [start |-> (k - 1) * intervalTicks,
                  end   |-> Min(k * intervalTicks, totalDuration)]]
  IN  IF segmentCount * intervalTicks < totalDuration
        THEN Append(full, [start |-> segmentCount * intervalTicks, end |-> totalDuration])
        ELSE full

\* segments.slice(from, to) with 0-based bounds
Slice(s, from, to) == SubSeq(s, from + 1, Min(to, Len(s)))

\* s.filter((_, i) => i % 2 === r)
RECURSIVE FilterParityRange(_, _, _, _)
FilterParityRange(s, r, lo, hi) ==
  IF lo >= hi THEN <<>>
  ELSE IF lo + 1 = hi THEN (IF lo % 2 = r THEN <<s[lo + 1]>> ELSE <<>>)
  ELSE FilterParityRange(s, r, lo, (lo + hi) \div 2)
       \o FilterParityRange(s, r, (lo + hi) \div 2, hi)

\* the elements of s at the indices i, i + 1, ... of parity r, in order
FilterParity(s, r, i) == FilterParityRange(s, r, i, Len(s))

\* the loops nested the other way round: for each part, for i < maxLength
RECURSIVE InterleaveBlockwise(_, _, _, _)
InterleaveBlockwise(parts, k, maxLength, t) ==
  IF t >= maxLength * k THEN <<>>
  ELSE LET i == t % maxLength
           part == parts[(t \div maxLength) + 1]
       IN  (IF i < Len(part) THEN <<part[i + 1]>> ELSE <<>>)
           \o InterleaveBlockwise(parts, k, maxLength, t + 1)

\* the interleave loops of encodeAudio: for i < maxLength, for each part, push part[i]
RECURSIVE InterleaveRange(_, _, _, _)
InterleaveRange(parts, k, lo, hi) ==
  IF lo >= hi THEN <<>>
  ELSE IF lo + 1 = hi
    THEN LET i == lo \div k
             part == parts[(lo % k) + 1]
         IN  IF i < Len(part) THEN <<part[i + 1]>> ELSE <<>>
  ELSE InterleaveRange(parts, k, lo, (lo + hi) \div 2)
       \o InterleaveRange(parts, k, (lo + hi) \div 2, hi)

Interleave(parts, k, maxLength, t) == InterleaveRange(parts, k, t, maxLength * k)

RECURSIVE MaxLen(_, _)
MaxLen(parts, k) == IF k = 0 THEN 0 ELSE Max(Len(parts[k]), MaxLen(parts, k - 1))

\* the 'split' branch with blocks of floor(n / k) segments
SplitForwardFloorBlocks(segments, k) ==
  LET segmentsPerPart == FloorDiv(Len(segments), k)
      parts == [p \in 1..k |->
                  Slice(segments, (p - 1) * segmentsPerPart,
                        Min(p * segmentsPerPart, Len(segments)))]
  IN  Interleave(parts, k, MaxLen(parts, k), 0)

\* encodeAudio, 'split' branch
SplitForward(segments, k) ==
  LET segmentsPerPart == CeilDiv(Len(segments), k)
      parts == [p \in 1..k |->
                  Slice(segments, (p - 1) * segmentsPerPart,
                        Min(p * segmentsPerPart, Len(segments)))]
  IN  Interleave(parts, k, MaxLen(parts, k), 0)

\* encodeAudio, 'oddEven' branch
OddEvenForward(segments) == FilterParity(segments, 0, 0) \o FilterParity(segments, 1, 0)

\* the reordering of encodeAudio; numberOfParts NaN runs no loop
EncodeReorder(segments, type, parts) ==
  IF type = "split" THEN (IF IsNaN(parts) THEN <<>> ELSE SplitForward(segments, parts.num))
  ELSE IF type = "oddEven" THEN OddEvenForward(segments)
  ELSE <<>>

\* reorderedSegments = new Array(n); the writes reorderedSegments[pos[j]] = segments[j]
\* for j = 0..n-1 in this order (pos[j] < 0: no write); then filter(Boolean).
\* The slot p after the writes: the segment of its last writer, if it has one
Slot(segments, pos, p) ==
  LET writers == {j \in 0..(Len(segments) - 1) : pos[j] = p}
      last == CHOOSE j \in writers : \A j2 \in writers : j2 <= j
  IN  IF writers = {} THEN <<>> ELSE <<segments[last + 1]>>

\* the filled slots from p to top, in order
RECURSIVE Compact(_, _, _, _)
Compact(segments, pos, p, top) ==
  IF p > top THEN <<>>
  ELSE IF p = top THEN Slot(segments, pos, p)
  ELSE Compact(segments, pos, p, (p + top) \div 2)
       \o Compact(segments, pos, (p + top) \div 2 + 1, top)

PlaceAndCompact(segments, pos) ==
  LET n == Len(segments)
      written == {pos[j] : j \in 0..(n - 1)}
      top == IF written = {} THEN 0 - 1 ELSE CHOOSE p \in written : \A q \in written : q <= p
  IN  Compact(segments, pos, 0, top)

\* finalPosition with segmentsPerPart taken as floor(n / k)
SplitFinalPositionFloor(index, totalSegments, k) ==
  LET segmentsPerPart == FloorDiv(totalSegments, k)
      partIndex == index % k
      positionInPart == index \div k
  IN  partIndex * segmentsPerPart + positionInPart

\* decodeAudio, 'split' branch: finalPosition of the segment at index
SplitFinalPosition(index, totalSegments, k) ==
  LET segmentsPerPart == CeilDiv(totalSegments, k)
      partIndex == index % k
      positionInPart == index \div k
  IN  partIndex * segmentsPerPart + positionInPart

\* decodeAudio, 'split' branch
SplitInverse(segments, k) ==
  LET totalSegments == Len(segments)
      pos == [j \in 0..(totalSegments - 1) |->
                LET finalPosition == SplitFinalPosition(j, totalSegments, k)
                IN  IF finalPosition < totalSegments THEN finalPosition ELSE 0 - 1]
  IN  PlaceAndCompact(segments, pos)

\* the inverse taking the first floor(n / 2) segments as the even slots
OddEvenInverseFloor(segments) ==
  LET totalSegments == Len(segments)
      oddCount == FloorDiv(totalSegments, 2)
      pos == [j \in 0..(totalSegments - 1) |->
                IF j < oddCount THEN j * 2
                ELSE IF (j - oddCount) * 2 + 1 < totalSegments
                  THEN (j - oddCount) * 2 + 1 ELSE 0 - 1]
  IN  PlaceAndCompact(segments, pos)

\* decodeAudio, 'oddEven' branch
OddEvenInverse(segments) ==
  LET totalSegments == Len(segments)
      oddCount == CeilDiv(totalSegments, 2)
      pos == [j \in 0..(totalSegments - 1) |->
                IF j < oddCount THEN j * 2
                ELSE IF (j - oddCount) * 2 + 1 < totalSegments
                  THEN (j - oddCount) * 2 + 1 ELSE 0 - 1]
  IN  PlaceAndCompact(segments, pos)

\* the reordering of decodeAudio
DecodeReorder(segments, type, parts) ==
  IF type = "split" THEN SplitInverse(segments, parts.num)
  ELSE IF type = "oddEven" THEN OddEvenInverse(segments)
  ELSE <<>>

RECURSIVE TotalLengthRange(_, _, _)
TotalLengthRange(segments, lo, hi) ==
  IF lo >= hi THEN 0
  ELSE IF lo + 1 = hi THEN Len(segments[hi].data[1])
  ELSE TotalLengthRange(segments, lo, (lo + hi) \div 2)
       + TotalLengthRange(segments, (lo + hi) \div 2, hi)

TotalLength(segments) == TotalLengthRange(segments, 0, Len(segments))

RECURSIVE ConcatChannelRange(_, _, _, _)
ConcatChannelRange(segments, c, lo, hi) ==
  IF lo >= hi THEN <<>>
  ELSE IF lo + 1 = hi THEN segments[hi].data[c]
  ELSE ConcatChannelRange(segments, c, lo, (lo + hi) \div 2)
       \o ConcatChannelRange(segments, c, (lo + hi) \div 2, hi)

ConcatChannel(segments, c) == ConcatChannelRange(segments, c, 0, Len(segments))

\* processInBatches: the buffer written segment after segment at writePosition;
\* createBuffer rejects a length of 0 (NotSupportedError)
AssemblyThrows(segments) == TotalLength(segments) = 0

processInBatches(segments, numberOfChannels, sampleRate) ==
  [sampleRate |-> sampleRate,
   numberOfChannels |-> numberOfChannels,
   length |-> TotalLength(segments),
   channels |-> [c \in 1..numberOfChannels |-> ConcatChannel(segments, c)]]

\* a reversal that starts reading one sample late (wraps round)
ReverseChannelShifted(channelData) ==
  [i \in 1..Len(channelData) |-> channelData[((Len(channelData) - i + 1) % Len(channelData)) + 1]]

\* reversedData[i] = channelData[channelData.length - 1 - i]
ReverseChannel(channelData) ==
  [i \in 1..Len(channelData) |-> channelData[Len(channelData) + 1 - i]]

reverseAudioBuffer(buffer) ==
  [buffer EXCEPT !.channels = [c \in 1..buffer.numberOfChannels |->
                                 ReverseChannel(buffer.channels[c])]]

(***************************************************************************)
(* Encode and decode requests of AudioProcessor, and the AudioEditor       *)
(***************************************************************************)
VARIABLES
  file,            \* the selected file, as the AudioBuffer decodeAudioData gives
  isProcessing,
  isDecoding,
  encodeRun,       \* the locals of the encodeAudio call (in flight or last ended)
  decodeRun,       \* the locals of the decodeAudio call
  encodedAudio,    \* what encodedAudioUrl points to
  decodedAudio,    \* what decodedAudioUrl points to
  editor           \* AudioEditor: its parameters and the locals of its encodeAudio

audioVars == <<file, isProcessing, isDecoding, encodeRun, decodeRun, encodedAudio,
               decodedAudio, editor>>

VARIABLES
  segments,            \* a sequence of labelled segments
  reorderedSegments,   \* its forward reordering
  restoredSegments,    \* the inverse reordering of reorderedSegments
  permPc

permVars == <<segments, reorderedSegments, restoredSegments, permPc>>

vars == <<uiVars, audioVars, permVars>>

\* iterations followed in a loop that does not end
MaxLoopSteps == 2

NoBuffer == [sampleRate |-> 0, numberOfChannels |-> 0, length |-> 0, channels |-> <<>>]

\* next, order, writePosition and readCleared belong to the task-by-task run of a
\* call: the next loop index, the reordered segments as references into
\* segments, the write position of processInBatches, and whether a segment
\* was read after its data had been cleared
IdleRun ==
  [pc |-> "idle", audioBuffer |-> NoBuffer, type |-> "none", parts |-> NaN,
   interval |-> NaN, reversed |-> FALSE, code |-> <<>>, workingBuffer |-> NoBuffer,
   segments |-> <<>>, reorderedSegments |-> <<>>, assembled |-> NoBuffer,
   finalBuffer |-> NoBuffer, next |-> 0, order |-> <<>>, writePosition |-> 0,
   readCleared |-> FALSE]

NoAudio == [url |-> FALSE, buffer |-> NoBuffer, source |-> NoBuffer, code |-> <<>>]

IdleEditor(type, intervalValue, reversed) ==
  [encodingType |-> type, interval |-> intervalValue, isReversed |-> reversed,
   pc |-> "idle", segments |-> <<>>, reorderedSegments |-> <<>>,
   encodedBuffer |-> NoBuffer]

AudioIdle ==
  /\ file = NoBuffer
  /\ isProcessing = FALSE
  /\ isDecoding = FALSE
  /\ encodeRun = IdleRun
  /\ decodeRun = IdleRun
  /\ encodedAudio = NoAudio
  /\ decodedAudio = NoAudio
  /\ editor = IdleEditor("none", IntNum(1), FALSE)

PermIdle ==
  /\ segments = <<>>
  /\ reorderedSegments = <<>>
  /\ restoredSegments = <<>>
  /\ permPc = "idle"

\* Math.ceil(duration / 0) is Infinity for a buffer with samples: the loop of
\* createAudioSegments has no last iteration
LoopsForever(audioBuffer, segmentDuration) ==
  /\ ~IsNaN(segmentDuration)
  /\ segmentDuration.num = 0
  /\ audioBuffer.length > 0

\* the segment pushed by an iteration with segmentDuration 0: start = end = 0,
\* new Float32Array(0) for every channel
EmptySegment(audioBuffer) ==
  [start |-> 0, end |-> 0, data |-> [c \in 1..audioBuffer.numberOfChannels |-> <<>>]]

\* encodeAudio up to the return of createAudioSegments; the parameters are the
\* ones of the render the click belongs to; with a segment duration of 0 the
\* call stays in the loop of createAudioSegments
EncodeStart ==
  /\ file # NoBuffer
  /\ ~isProcessing
  /\ encodingType # "none"
  /\ isProcessing' = TRUE
  /\ encodeRun' =
       [IdleRun EXCEPT !.pc = IF LoopsForever(file, interval) THEN "segmenting"
                             ELSE "segmented",
                       !.audioBuffer = file, !.type = encodingType,
                       !.parts = numberOfParts, !.interval = interval,
                       !.reversed = isReversed, !.code = generateEncodingCode,
                       !.workingBuffer = file,
                       !.segments = createAudioSegments(file, interval)]
  /\ UNCHANGED <<uiVars, permVars, file, isDecoding, decodeRun, encodedAudio,
                 decodedAudio, editor>>

\* one more iteration of the loop of createAudioSegments that has no last one
EncodeSegmentLoop ==
  /\ encodeRun.pc = "segmenting"
  /\ Len(encodeRun.segments) < MaxLoopSteps
  /\ encodeRun' = [encodeRun EXCEPT
                     !.segments = Append(@, EmptySegment(encodeRun.audioBuffer))]
  /\ UNCHANGED <<uiVars, permVars, file, isProcessing, isDecoding, decodeRun,
                 encodedAudio, decodedAudio, editor>>

\* the reordering and processInBatches; a throw ends the call in catch / finally
EncodeAssemble ==
  /\ encodeRun.pc = "segmented"
  /\ LET reordered == EncodeReorder(encodeRun.segments, encodeRun.type, encodeRun.parts)
     IN  IF AssemblyThrows(reordered)
           THEN /\ encodeRun' = [encodeRun EXCEPT !.pc = "failed",
                                                  !.reorderedSegments = reordered]
                /\ isProcessing' = FALSE
           ELSE /\ encodeRun' =
                     [encodeRun EXCEPT !.pc = "assembled",
                        !.reorderedSegments = reordered,
                        !.assembled =
                           processInBatches(reordered,
                                            encodeRun.audioBuffer.numberOfChannels,
                                            encodeRun.audioBuffer.sampleRate)]
                /\ UNCHANGED isProcessing
  /\ UNCHANGED <<uiVars, permVars, file, isDecoding, decodeRun, encodedAudio,
                 decodedAudio, editor>>

\* the reversal, setEncodedAudioUrl and the finally block
EncodeFinish ==
  /\ encodeRun.pc = "assembled"
  /\ LET finalBuffer == IF encodeRun.reversed THEN reverseAudioBuffer(encodeRun.assembled)
                        ELSE encodeRun.assembled
     IN  /\ encodeRun' = [encodeRun EXCEPT !.pc = "done", !.finalBuffer = finalBuffer]
         /\ encodedAudio' = [url |-> TRUE, buffer |-> finalBuffer,
                             source |-> encodeRun.audioBuffer, code |-> encodeRun.code]
  /\ isProcessing' = FALSE
  /\ UNCHANGED <<uiVars, permVars, file, isDecoding, decodeRun, decodedAudio, editor>>

\* decodeAudio started from a button that looks at the input being non-empty only
DecodeStartUngated ==
  /\ file # NoBuffer
  /\ ~isDecoding
  /\ decodeInputCode # <<>>
  /\ isDecoding' = TRUE
  /\ LET workingBuffer == IF isDecodeReversed THEN reverseAudioBuffer(file) ELSE file
     IN  decodeRun' =
           [IdleRun EXCEPT !.pc = "segmented", !.audioBuffer = file, !.type = decodingType,
                           !.parts = decodeNumberOfParts, !.interval = decodeInterval,
                           !.reversed = isDecodeReversed, !.code = decodeInputCode,
                           !.workingBuffer = workingBuffer,
                           !.segments = createAudioSegments(workingBuffer, decodeInterval)]
  /\ UNCHANGED <<uiVars, permVars, file, isProcessing, encodeRun, encodedAudio,
                 decodedAudio, editor>>

\* the Decode Audio button is enabled
DecodeEnabled == ~(isDecoding \/ ~isValidCode \/ decodeInputCode = <<>>)

\* decodeAudio up to the return of createAudioSegments
DecodeStart ==
  /\ file # NoBuffer
  /\ ~isDecoding
  /\ isValidCode
  /\ decodeInputCode # <<>>
  /\ isDecoding' = TRUE
  /\ LET workingBuffer == IF isDecodeReversed THEN reverseAudioBuffer(file) ELSE file
     IN  decodeRun' =
           [IdleRun EXCEPT !.pc = "segmented", !.audioBuffer = file, !.type = decodingType,
                           !.parts = decodeNumberOfParts, !.interval = decodeInterval,
                           !.reversed = isDecodeReversed, !.code = decodeInputCode,
                           !.workingBuffer = workingBuffer,
                           !.segments = createAudioSegments(workingBuffer, decodeInterval)]
  /\ UNCHANGED <<uiVars, permVars, file, isProcessing, encodeRun, encodedAudio,
                 decodedAudio, editor>>

DecodeAssemble ==
  /\ decodeRun.pc = "segmented"
  /\ LET reordered == DecodeReorder(decodeRun.segments, decodeRun.type, decodeRun.parts)
     IN  IF AssemblyThrows(reordered)
           THEN /\ decodeRun' = [decodeRun EXCEPT !.pc = "failed",
                                                  !.reorderedSegments = reordered]
                /\ isDecoding' = FALSE
           ELSE /\ decodeRun' =
                     [decodeRun EXCEPT !.pc = "assembled",
                        !.reorderedSegments = reordered,
                        !.assembled =
                           processInBatches(reordered,
                                            decodeRun.workingBuffer.numberOfChannels,
                                            decodeRun.workingBuffer.sampleRate)]
                /\ UNCHANGED isDecoding
  /\ UNCHANGED <<uiVars, permVars, file, isProcessing, encodeRun, encodedAudio,
                 decodedAudio, editor>>

DecodeFinish ==
  /\ decodeRun.pc = "assembled"
  /\ decodeRun' = [decodeRun EXCEPT !.pc = "done", !.finalBuffer = decodeRun.assembled]
  /\ decodedAudio' = [url |-> TRUE, buffer |-> decodeRun.assembled,
                      source |-> decodeRun.audioBuffer, code |-> decodeRun.code]
  /\ isDecoding' = FALSE
  /\ UNCHANGED <<uiVars, permVars, file, isProcessing, encodeRun, encodedAudio, editor>>

\* the encoded audio is downloaded and dropped on the dropzone (onFileSelect)
LoadEncodedFile ==
  /\ encodedAudio.url
  /\ file # encodedAudio.buffer
  /\ file' = encodedAudio.buffer
  /\ UNCHANGED <<uiVars, permVars, isProcessing, isDecoding, encodeRun, decodeRun,
                 encodedAudio, decodedAudio, editor>>

\* the code shown with the encoded audio is entered in the decode panel
EnterEncodedCode ==
  /\ encodedAudio.url
  /\ SetDecodeInputCode(encodedAudio.code)
  /\ UNCHANGED <<permVars, audioVars>>

\* AudioEditor.reorderSegments
EditorReorderSegments(segs, type) ==
  IF type = "split" \/ type = "oddEven"
    THEN FilterParity(segs, 0, 0) \o FilterParity(segs, 1, 0)
    ELSE segs

\* Array.prototype.reverse
ArrayReverse(s) == [i \in 1..Len(s) |-> s[Len(s) + 1 - i]]

\* AudioEditor.encodeAudio, the fill loop of one channel: each segment copied from
\* floor(start * sampleRate) up to floor(end * sampleRate) at writePosition
RECURSIVE EditorFill(_, _, _)
EditorFill(inputData, segs, tps) ==
  IF segs = <<>> THEN <<>>
  ELSE LET startSample == FloorDiv(segs[1].start, tps)
           endSample   == FloorDiv(segs[1].end, tps)
       IN  SubSeq(inputData, startSample + 1, endSample)
           \o EditorFill(inputData, Tail(segs), tps)

\* the output channel has the length of the input: unwritten samples stay 0
EditorChannel(inputData, segs, tps) ==
  LET written == EditorFill(inputData, segs, tps)
  IN  [i \in 1..Len(inputData) |-> IF i <= Len(written) THEN written[i] ELSE 0]

\* AudioEditor.encodeAudio
EditorEncodeAudio ==
  /\ file # NoBuffer
  /\ editor.pc = "idle"
  /\ editor.encodingType # "none"
  /\ ~IsNaN(editor.interval) /\ editor.interval.num > 0
  /\ LET tps  == TicksPerSample(editor.interval)
         segs == EditorCreateAudioSegments(DurationTicks(file, editor.interval),
                                           IntervalTicks(file, editor.interval))
         reordered == EditorReorderSegments(segs, editor.encodingType)
         ordered == IF editor.isReversed THEN ArrayReverse(reordered) ELSE reordered
     IN  editor' = [editor EXCEPT !.pc = "done", !.segments = segs,
                      !.reorderedSegments = ordered,
                      !.encodedBuffer =
                         [file EXCEPT !.channels =
                            [c \in 1..file.numberOfChannels |->
                               EditorChannel(file.channels[c], ordered, tps)]]]
  /\ UNCHANGED <<uiVars, permVars, file, isProcessing, isDecoding, encodeRun, decodeRun,
                 encodedAudio, decodedAudio>>

(***************************************************************************)
(* encodeAudio and decodeAudio task by task: a call runs from one yield     *)
(* (await of a timer or of the platform) to the next; other handlers and    *)
(* the other call run in between                                            *)
(***************************************************************************)
\* createAudioSegments: if (i % 100 === 0) await setTimeout
SEGMENT_YIELD == 100

\* processInBatches: batchSize
BATCH_SIZE == 50

\* the segment duration a call in flight works with, read from the panel
LiveSegmentDuration(run, kind) == IF kind = "encode" THEN interval ELSE decodeInterval

\* the segment duration a call in flight works with: the parameter of
\* createAudioSegments, taken from the render the click belongs to
SegmentDuration(run, kind) == run.interval

\* the last index the loop of createAudioSegments handles before it yields or ends
LoopStop(run, kind) ==
  Min(NumberOfSegments(run.workingBuffer, SegmentDuration(run, kind)) - 1,
      CeilDiv(run.next, SEGMENT_YIELD) * SEGMENT_YIELD)

\* the iterations from run.next to LoopStop
RunLoop(run, kind) ==
  [run EXCEPT
     !.segments = @ \o SubSeq(createAudioSegments(run.workingBuffer,
                                                  SegmentDuration(run, kind)),
                              run.next + 1, LoopStop(run, kind) + 1),
     !.next = LoopStop(run, kind) + 1]

\* the iterations end in the await of line 81
LoopYields(run, kind) ==
  /\ run.next < NumberOfSegments(run.workingBuffer, SegmentDuration(run, kind))
  /\ LoopStop(run, kind) % SEGMENT_YIELD = 0

\* the reordering of the call, on references to its segments
ReorderReferences(run, kind) ==
  IF kind = "encode"
    THEN EncodeReorder([i \in 1..Len(run.segments) |-> i], run.type, run.parts)
    ELSE DecodeReorder([i \in 1..Len(run.segments) |-> i], run.type, run.parts)

\* segments.reduce((sum, segment) => sum + segment.data[0].length, 0), over the
\* references order[from + 1 .. to]
RECURSIVE TotalLengthOf(_, _, _, _)
TotalLengthOf(segs, order, from, to) ==
  IF from >= to THEN 0
  ELSE IF from + 1 = to THEN Len(segs[order[to]].data[1])
  ELSE TotalLengthOf(segs, order, from, (from + to) \div 2)
       + TotalLengthOf(segs, order, (from + to) \div 2, to)

\* the data of channel c of the segments order[from + 1 .. to], one after the other
RECURSIVE DataOf(_, _, _, _, _)
DataOf(segs, order, c, from, to) ==
  IF from >= to THEN <<>>
  ELSE IF from + 1 = to THEN segs[order[to]].data[c]
  ELSE DataOf(segs, order, c, from, (from + to) \div 2)
       \o DataOf(segs, order, c, (from + to) \div 2, to)

\* channelData.set(data, writePosition)
SetAt(channelData, data, writePosition) ==
  [i \in 1..Len(channelData) |->
     IF i > writePosition /\ i <= writePosition + Len(data)
       THEN data[i - writePosition] ELSE channelData[i]]

\* a segment among order[from + 1 .. to] is read after its data has been cleared:
\* it was cleared before, or it comes twice in the batch
ReadsCleared(run, from, to) ==
  \/ \E i \in (from + 1)..to : run.segments[run.order[i]].data = <<>>
  \/ \E i, j \in (from + 1)..to : i < j /\ run.order[i] = run.order[j]

\* the body of the batch loop for the segments order[from + 1 .. to]: write the
\* data of every channel, advance writePosition, clear the segment's data;
\* segment.data[channel] of a cleared segment is undefined and set() throws
WriteSegments(run, from, to) ==
  IF ReadsCleared(run, from, to)
    THEN [run EXCEPT !.pc = "failed", !.readCleared = TRUE]
    ELSE [run EXCEPT
            !.assembled.channels =
               [c \in 1..run.assembled.numberOfChannels |->
                  SetAt(@[c], DataOf(run.segments, run.order, c, from, to),
                        run.writePosition)],
            !.writePosition = @ + TotalLengthOf(run.segments, run.order, from, to),
            !.segments =
               [r \in 1..Len(run.segments) |->
                  IF \E i \in (from + 1)..to : run.order[i] = r
                    THEN [run.segments[r] EXCEPT !.data = <<>>]
                    ELSE run.segments[r]],
            !.next = to]

\* one batch of processInBatches, up to the await of line 113
AssembleBatch(run) ==
  WriteSegments(run, run.next, Min(run.next + BATCH_SIZE, Len(run.order)))

\* the call after createAudioSegments has returned: the reordering, then
\* processInBatches up to its first await; createBuffer throws for length 0
BeginAssembly(run, kind) ==
  LET order == ReorderReferences(run, kind)
      totalLength == TotalLengthOf(run.segments, order, 0, Len(order))
  IN  IF totalLength = 0
        THEN [run EXCEPT !.pc = "failed", !.order = order]
        ELSE AssembleBatch(
               [run EXCEPT
                  !.pc = "batches", !.order = order, !.next = 0, !.writePosition = 0,
                  !.assembled =
                     [sampleRate |-> run.workingBuffer.sampleRate,
                      numberOfChannels |-> run.workingBuffer.numberOfChannels,
                      length |-> totalLength,
                      channels |-> [c \in 1..run.workingBuffer.numberOfChannels |->
                                      [i \in 1..totalLength |-> 0]]]])

\* the task that resumes createAudioSegments
LoopTask(run, kind) ==
  IF LoopYields(run, kind) THEN RunLoop(run, kind)
  ELSE IF run.next < NumberOfSegments(run.workingBuffer, SegmentDuration(run, kind))
    THEN BeginAssembly(RunLoop(run, kind), kind)
    ELSE BeginAssembly(run, kind)

\* the task that resumes processInBatches: the next batch, or the return
BatchTask(run) ==
  IF run.next < Len(run.order) THEN AssembleBatch(run)
  ELSE [run EXCEPT !.pc = "returned"]

\* the click on Encode Audio; the call then waits for initAudioContext,
\* file.arrayBuffer and decodeAudioData
EncodeClick ==
  /\ file # NoBuffer
  /\ ~isProcessing
  /\ encodingType # "none"
  /\ isProcessing' = TRUE
  /\ encodeRun' =
       [IdleRun EXCEPT !.pc = "loop", !.audioBuffer = file, !.type = encodingType,
                       !.parts = numberOfParts, !.interval = interval,
                       !.reversed = isReversed, !.code = generateEncodingCode,
                       !.workingBuffer = file]
  /\ UNCHANGED <<uiVars, permVars, file, isDecoding, decodeRun, encodedAudio,
                 decodedAudio, editor>>

EncodeLoopTask ==
  /\ encodeRun.pc = "loop"
  /\ encodeRun' = LoopTask(encodeRun, "encode")
  /\ isProcessing' = (encodeRun'.pc # "failed")
  /\ UNCHANGED <<uiVars, permVars, file, isDecoding, decodeRun, encodedAudio,
                 decodedAudio, editor>>

\* the next batch, or the rest of encodeAudio after processInBatches has returned
EncodeBatchTask ==
  /\ encodeRun.pc = "batches"
  /\ IF BatchTask(encodeRun).pc = "returned"
       THEN LET finalBuffer == IF encodeRun.reversed
                                 THEN reverseAudioBuffer(encodeRun.assembled)
                                 ELSE encodeRun.assembled
            IN  /\ encodeRun' = [encodeRun EXCEPT !.pc = "done", !.segments = <<>>,
                                                  !.order = <<>>,
                                                  !.finalBuffer = finalBuffer]
                /\ encodedAudio' = [url |-> TRUE, buffer |-> finalBuffer,
                                    source |-> encodeRun.audioBuffer,
                                    code |-> encodeRun.code]
                /\ isProcessing' = FALSE
       ELSE /\ encodeRun' = BatchTask(encodeRun)
            /\ isProcessing' = (encodeRun'.pc # "failed")
            /\ UNCHANGED encodedAudio
  /\ UNCHANGED <<uiVars, permVars, file, isDecoding, decodeRun, decodedAudio, editor>>

\* the click on Decode Audio
DecodeClick ==
  /\ file # NoBuffer
  /\ DecodeEnabled
  /\ isDecoding' = TRUE
  /\ decodeRun' =
       [IdleRun EXCEPT !.pc = "loop", !.audioBuffer = file, !.type = decodingType,
                       !.parts = decodeNumberOfParts, !.interval = decodeInterval,
                       !.reversed = isDecodeReversed, !.code = decodeInputCode,
                       !.workingBuffer = IF isDecodeReversed THEN reverseAudioBuffer(file)
                                         ELSE file]
  /\ UNCHANGED <<uiVars, permVars, file, isProcessing, encodeRun, encodedAudio,
                 decodedAudio, editor>>

DecodeLoopTask ==
  /\ decodeRun.pc = "loop"
  /\ decodeRun' = LoopTask(decodeRun, "decode")
  /\ isDecoding' = (decodeRun'.pc # "failed")
  /\ UNCHANGED <<uiVars, permVars, file, isProcessing, encodeRun, encodedAudio,
                 decodedAudio, editor>>

DecodeBatchTask ==
  /\ decodeRun.pc = "batches"
  /\ IF BatchTask(decodeRun).pc = "returned"
       THEN /\ decodeRun' = [decodeRun EXCEPT !.pc = "done", !.segments = <<>>,
                                              !.order = <<>>,
                                              !.finalBuffer = decodeRun.assembled]
            /\ decodedAudio' = [url |-> TRUE, buffer |-> decodeRun.assembled,
                                source |-> decodeRun.audioBuffer,
                                code |-> decodeRun.code]
            /\ isDecoding' = FALSE
       ELSE /\ decodeRun' = BatchTask(decodeRun)
            /\ isDecoding' = (decodeRun'.pc # "failed")
            /\ UNCHANGED decodedAudio
  /\ UNCHANGED <<uiVars, permVars, file, isProcessing, encodeRun, encodedAudio, editor>>

(***************************************************************************)
(* Specifications                                                          *)
(***************************************************************************)
\* Spec: the encode and decode panels (parameters and encoding code)
Init == UiInit /\ AudioIdle /\ PermIdle

Next == UiNext /\ UNCHANGED <<audioVars, permVars>>

Spec == Init /\ [][Next]_vars

\* SpecPerm: the forward and inverse reorderings on labelled segments
MaxSegments == 12

Labels(n) == [i \in 1..n |-> i - 1]

ValidParts == {IntNum(k) : k \in 2..10}

InitPerm ==
  /\ encodingType \in {"split", "oddEven"}
  /\ numberOfParts \in ValidParts
  /\ encodingType = "oddEven" => numberOfParts = IntNum(2)
  /\ decodingType = encodingType
  /\ decodeNumberOfParts = numberOfParts
  /\ interval = IntNum(1)
  /\ isReversed = FALSE
  /\ decodeInterval = IntNum(1)
  /\ isDecodeReversed = FALSE
  /\ decodeInputCode = <<>>
  /\ isValidCode = TRUE
  /\ AudioIdle
  /\ segments \in {Labels(n) : n \in 0..MaxSegments}
  /\ reorderedSegments = <<>>
  /\ restoredSegments = <<>>
  /\ permPc = "input"

PermForward ==
  /\ permPc = "input"
  /\ reorderedSegments' = EncodeReorder(segments, encodingType, numberOfParts)
  /\ permPc' = "forward"
  /\ UNCHANGED <<uiVars, audioVars, segments, restoredSegments>>

PermInverse ==
  /\ permPc = "forward"
  /\ restoredSegments' = DecodeReorder(reorderedSegments, decodingType, decodeNumberOfParts)
  /\ permPc' = "inverse"
  /\ UNCHANGED <<uiVars, audioVars, segments, reorderedSegments>>

NextPerm == PermForward \/ PermInverse

SpecPerm == InitPerm /\ [][NextPerm]_vars

\* SpecAudio: encode a source buffer, hand the result and its code to the decoder
MaxSamples == 9

MaxChannels == 2

MaxAudioParts == 3

SampleRates == {3000, 3500}

AudioIntervals == {Dec(1, 1000), Dec(2, 1000)}

Label(c, i) == (c - 1) * (MaxSamples + 1) + i

SourceBuffer(sampleRate, numberOfChannels, length) ==
  [sampleRate |-> sampleRate, numberOfChannels |-> numberOfChannels, length |-> length,
   channels |-> [c \in 1..numberOfChannels |-> [i \in 1..length |-> Label(c, i)]]]

SourceBuffers ==
  {SourceBuffer(r, c, n) : r \in SampleRates, c \in 1..MaxChannels, n \in 1..MaxSamples}

InitAudio ==
  /\ encodingType \in {"split", "oddEven"}
  /\ numberOfParts \in {IntNum(k) : k \in 2..MaxAudioParts}
  /\ encodingType = "oddEven" => numberOfParts = IntNum(2)
  /\ interval \in AudioIntervals
  /\ isReversed \in BOOLEAN
  /\ decodingType = "none"
  /\ decodeNumberOfParts = IntNum(2)
  /\ decodeInterval = IntNum(1)
  /\ isDecodeReversed = FALSE
  /\ decodeInputCode = <<>>
  /\ isValidCode = TRUE
  /\ file \in SourceBuffers
  /\ isProcessing = FALSE
  /\ isDecoding = FALSE
  /\ encodeRun = IdleRun
  /\ decodeRun = IdleRun
  /\ encodedAudio = NoAudio
  /\ decodedAudio = NoAudio
  /\ editor = IdleEditor(encodingType, interval, isReversed)
  /\ PermIdle

\* the scenario: source buffers are encoded, the encoded audio is not encoded again
EncodeSource == file \in SourceBuffers /\ EncodeStart

NextAudio ==
  \/ EncodeSource
  \/ EncodeAssemble
  \/ EncodeFinish
  \/ LoadEncodedFile
  \/ EnterEncodedCode
  \/ DecodeStart
  \/ DecodeAssemble
  \/ DecodeFinish
  \/ EditorEncodeAudio

SpecAudio == InitAudio /\ [][NextAudio]_vars

\* SpecCodec: the code generated for valid parameters is entered in the decode panel
ValidIntervals == {Dec(m, 1000) : m \in {1, 2, 25, 200, 1000, 1500, 9999, 10000}}

InitCodec ==
  /\ encodingType \in {"split", "oddEven"}
  /\ numberOfParts \in ValidParts
  /\ interval \in ValidIntervals
  /\ isReversed \in BOOLEAN
  /\ decodingType = "none"
  /\ decodeNumberOfParts = IntNum(2)
  /\ decodeInterval = IntNum(1)
  /\ isDecodeReversed = FALSE
  /\ decodeInputCode = <<>>
  /\ isValidCode = TRUE
  /\ AudioIdle
  /\ PermIdle

PasteEncodingCode ==
  /\ SetDecodeInputCode(generateEncodingCode)
  /\ UNCHANGED <<audioVars, permVars>>

NextCodec == PasteEncodingCode

SpecCodec == InitCodec /\ [][NextCodec]_vars

\* SpecEncodePanel: the encode panel with a file selected: the parameter inputs
\* and the Encode Audio button
PanelPartsInputs == { <<>>, <<"1", "1">> }

PanelIntervalInputs == { <<>>, <<"0">>, <<"0", ".", "0", "0", "1">>, <<"1", "1">> }

PanelFile == SourceBuffer(3000, 1, MaxSamples)

InitEncodePanel ==
  /\ UiInit
  /\ file = PanelFile
  /\ isProcessing = FALSE
  /\ isDecoding = FALSE
  /\ encodeRun = IdleRun
  /\ decodeRun = IdleRun
  /\ encodedAudio = NoAudio
  /\ decodedAudio = NoAudio
  /\ editor = IdleEditor("none", IntNum(1), FALSE)
  /\ PermIdle

EditEncodeParameters ==
  /\ \/ \E t \in EncodingTypes : SetEncodingType(t)
     \/ \E v \in PanelPartsInputs : SetNumberOfParts(v)
     \/ \E v \in PanelIntervalInputs : SetInterval(v)
     \/ \E b \in BOOLEAN : SetIsReversed(b)
  /\ UNCHANGED <<audioVars, permVars>>

NextEncodePanel ==
  \/ EditEncodeParameters
  \/ EncodeStart
  \/ EncodeSegmentLoop
  \/ EncodeAssemble
  \/ EncodeFinish

SpecEncodePanel == InitEncodePanel /\ [][NextEncodePanel]_vars

\* SpecDecodePanel: the decode panel with a file selected: the code input and
\* the Decode Audio button
DecodeCodeInputs ==
  CodeInputs \cup { <<"s", "b", "2", "b", "0", ".", "0", "0", "1", "f">>,
                    <<"s", "b", "5", "x", "b", "0", ".", "2", "t">>,
                    <<"s", "b", "5", "b", "0", ".", "2", "x", "t">>,
                    <<"s", "b", "0", "x", "5", "b", "0", ".", "2", "t">>,
                    <<"o", "e", "b", "b", "1", "1", "f">> }

EditDecodeCode ==
  /\ \E code \in DecodeCodeInputs : SetDecodeInputCode(code)
  /\ UNCHANGED <<audioVars, permVars>>

NextDecodePanel ==
  \/ EditDecodeCode
  \/ DecodeStart
  \/ DecodeAssemble
  \/ DecodeFinish

SpecDecodePanel == InitEncodePanel /\ [][NextDecodePanel]_vars

\* SpecYield: an encode and a decode call on the same file, run task by task,
\* with edits of the interval and of the code in between
YieldSamples == 101

YieldFile == SourceBuffer(1000, 1, YieldSamples)

YieldIntervalInputs == { <<"0", ".", "0", "0", "2">> }

YieldCodeInputs ==
  { <<"s", "b", "3", "b", "0", ".", "0", "0", "2", "f">>,
    <<"o", "e", "b", "b", "0", ".", "0", "0", "2", "t">> }

InitYield ==
  /\ encodingType \in {"split", "oddEven"}
  /\ numberOfParts = IntNum(3)
  /\ interval = Dec(1, 1000)
  /\ isReversed = (encodingType = "oddEven")
  /\ decodingType = "none"
  /\ decodeNumberOfParts = IntNum(2)
  /\ decodeInterval = IntNum(1)
  /\ isDecodeReversed = FALSE
  /\ decodeInputCode = <<>>
  /\ isValidCode = TRUE
  /\ file = YieldFile
  /\ isProcessing = FALSE
  /\ isDecoding = FALSE
  /\ encodeRun = IdleRun
  /\ decodeRun = IdleRun
  /\ encodedAudio = NoAudio
  /\ decodedAudio = NoAudio
  /\ editor = IdleEditor("none", IntNum(1), FALSE)
  /\ PermIdle

EditBetweenTasks ==
  /\ \/ \E v \in YieldIntervalInputs : SetInterval(v)
     \/ \E code \in YieldCodeInputs : SetDecodeInputCode(code)
  /\ UNCHANGED <<audioVars, permVars>>

NextYield ==
  \/ EditBetweenTasks
  \/ EncodeClick
  \/ EncodeLoopTask
  \/ EncodeBatchTask
  \/ DecodeClick
  \/ DecodeLoopTask
  \/ DecodeBatchTask

SpecYield == InitYield /\ [][NextYield]_vars

(***************************************************************************)
(* Properties                                                              *)
(***************************************************************************)
\* C1: decoding the buffer produced by encodeAudio, with the parameters parsed
\* from the code the encoder generated, gives back the source's samples exactly,
\* channel by channel (also when the last segment is shorter than the others).
C1_EndToEndRoundTrip ==
  (/\ decodeRun.pc = "done"
   /\ encodedAudio.url
   /\ decodeRun.audioBuffer = encodedAudio.buffer
   /\ decodeRun.code = encodedAudio.code)
  => decodeRun.finalBuffer.channels = encodedAudio.source.channels

\* C2: the Split forward reordering followed by the Split inverse with the same
\* number of parts gives back the original order of the labelled segments.
C2_SplitRoundTrip ==
  (permPc = "inverse" /\ encodingType = "split") => restoredSegments = segments

\* C3: the OddEven forward reordering puts the segments of even original index
\* first and those of odd index after them, and the OddEven inverse gives back
\* the original order, for even and for odd segment counts.
C3_OddEvenRoundTrip ==
  /\ (permPc \in {"forward", "inverse"} /\ encodingType = "oddEven") =>
       /\ Len(reorderedSegments) = Len(segments)
       /\ \A i \in 1..Len(segments) :
            reorderedSegments[i] =
              IF i <= CeilDiv(Len(segments), 2)
                THEN segments[2 * i - 1]
                ELSE segments[2 * (i - CeilDiv(Len(segments), 2))]
  /\ (permPc = "inverse" /\ encodingType = "oddEven") => restoredSegments = segments

C3_Witness ==
  /\ permPc = "inverse"
  /\ encodingType = "oddEven"
  /\ Len(segments) = 7
  /\ reorderedSegments # segments
  /\ restoredSegments = segments

ValidEncodeParameters ==
  /\ encodingType \in {"split", "oddEven"}
  /\ ~IsNaN(interval) /\ ~NumLt(interval, MinInterval) /\ ~NumGt(interval, MaxInterval)
  /\ encodingType = "split" =>
       ~IsNaN(numberOfParts) /\ ~NumLt(numberOfParts, MinParts)
       /\ ~NumGt(numberOfParts, MaxParts)

\* C4: for valid parameters (Split with 2..10 parts or OddEven, interval in
\* [0.001, 10], either reverse flag) the generated code, once entered, is accepted
\* and sets the decode type, parts (for Split), interval and reverse flag to the
\* encoder's.
C4_DescriptorRoundTrip ==
  (decodeInputCode = generateEncodingCode /\ ValidEncodeParameters) =>
    /\ isValidCode
    /\ decodingType = encodingType
    /\ encodingType = "split" => decodeNumberOfParts = numberOfParts
    /\ decodeInterval = interval
    /\ isDecodeReversed = isReversed

C4_Witness ==
  /\ decodeInputCode = generateEncodingCode
  /\ encodingType = "split"
  /\ numberOfParts = IntNum(10)
  /\ interval = Dec(25, 1000)
  /\ isReversed
  /\ isValidCode
  /\ decodeNumberOfParts = IntNum(10)
  /\ decodeInterval = Dec(25, 1000)

\* C5: the generated code of Split(parts 5, interval 0.2, reversed) is
\* "sb5b0.2bt" and the one of OddEven(interval 1, not reversed) is "oebb1f".
C5_SerializationFormat ==
  /\ (encodingType = "split" /\ numberOfParts = IntNum(5) /\ interval = Dec(2, 10)
      /\ isReversed)
       => generateEncodingCode = <<"s", "b", "5", "b", "0", ".", "2", "b", "t">>
  /\ (encodingType = "oddEven" /\ interval = IntNum(1) /\ ~isReversed)
       => generateEncodingCode = <<"o", "e", "b", "b", "1", "f">>

\* C6: the code "oebb0.2bt" is accepted and parses to OddEven, interval 0.2,
\* reversed.
C6_OddEvenCodeAccepted ==
  decodeInputCode = <<"o", "e", "b", "b", "0", ".", "2", "b", "t">> =>
    /\ isValidCode
    /\ decodingType = "oddEven"
    /\ decodeInterval = Dec(2, 10)
    /\ isDecodeReversed

\* the rejection examples, as written and in the generator's own layout
RejectionExamples ==
  { <<"s", "b", "1", "b", "0", ".", "2", "b", "t">>,
    <<"s", "b", "5", "b", "0", ".", "2", "b", "x">>,
    <<"x", "b", "5", "b", "0", ".", "2", "b", "t">> }

RejectionExamplesOwnLayout ==
  { <<"s", "b", "1", "b", "0", ".", "2", "t">>,
    <<"s", "b", "5", "b", "0", ".", "2", "x">>,
    <<"x", "b", "5", "b", "0", ".", "2", "t">> }

PartitionsDuration(spans, D, I) ==
  LET full == D \div I
      rem  == D - full * I
      n    == Len(spans)
  IN  /\ n = full + (IF rem > 0 THEN 1 ELSE 0)
      /\ \A i \in 1..full : spans[i].start = (i - 1) * I /\ spans[i].end = i * I
      /\ rem > 0 => spans[n].start = full * I /\ spans[n].end = D
      /\ \A i \in 1..n : spans[i].start < spans[i].end
      /\ \A i \in 2..n : spans[i].start = spans[i - 1].end
      /\ n > 0 => spans[1].start = 0 /\ spans[n].end = D
      /\ D = 0 => n = 0
      /\ (0 < D /\ D < I) => (n = 1 /\ spans[1].start = 0 /\ spans[1].end = D)

RunPartitionsDuration(run) ==
  run.pc # "idle" =>
    /\ PartitionsDuration(run.segments,
                          DurationTicks(run.workingBuffer, run.interval),
                          IntervalTicks(run.workingBuffer, run.interval))
    /\ createAudioSegments([run.workingBuffer EXCEPT !.length = 0], run.interval) = <<>>

\* C8: the spans returned by createAudioSegments (AudioProcessor, in encode and
\* decode requests, and AudioEditor) partition the duration: floor(D/I) full
\* spans and a final shorter one exactly when the remainder is positive,
\* contiguous from 0 to D, none empty; D = 0 gives no span, D < I exactly [0, D].
C8_SegmentationPartitions ==
  /\ RunPartitionsDuration(encodeRun)
  /\ RunPartitionsDuration(decodeRun)
  /\ editor.pc = "done" =>
       /\ PartitionsDuration(editor.segments,
                             DurationTicks(editor.encodedBuffer, editor.interval),
                             IntervalTicks(editor.encodedBuffer, editor.interval))
       /\ EditorCreateAudioSegments(0, IntervalTicks(editor.encodedBuffer,
                                                     editor.interval)) = <<>>

C8_Witness ==
  /\ encodeRun.pc = "segmented"
  /\ editor.pc = "done"
  /\ Len(encodeRun.segments) = 3
  /\ Len(editor.segments) = 3
  /\ encodeRun.segments[3].end - encodeRun.segments[3].start
       < encodeRun.segments[1].end - encodeRun.segments[1].start

\* the samples of channel c held by the segments, in segment order
SegmentSamples(segs, c) == ConcatChannel(segs, c)

\* C9: the per-channel lengths of the segments created from a buffer add up to
\* the buffer's length, every source sample is in exactly one segment, and the
\* assembled buffer is as long as the source.
C9_SampleConservation ==
  /\ encodeRun.pc # "idle" =>
       /\ TotalLength(encodeRun.segments) = encodeRun.audioBuffer.length
       /\ \A c \in 1..encodeRun.audioBuffer.numberOfChannels :
            SegmentSamples(encodeRun.segments, c) = encodeRun.audioBuffer.channels[c]
  /\ encodeRun.pc \in {"assembled", "done"} =>
       encodeRun.assembled.length = encodeRun.audioBuffer.length

\* C10: a reversal puts sample i at position length - 1 - i and keeps the
\* length (reverseAudioBuffer on every channel, Array.reverse on the editor's
\* segments), and reversing the reversed buffer gives the buffer back.
C10_ReversalInvolution ==
  /\ (encodeRun.pc = "done" /\ encodeRun.reversed) =>
       /\ encodeRun.finalBuffer.length = encodeRun.assembled.length
       /\ \A c \in 1..encodeRun.assembled.numberOfChannels :
            /\ Len(encodeRun.finalBuffer.channels[c]) = encodeRun.assembled.length
            /\ \A i \in 1..encodeRun.assembled.length :
                 encodeRun.finalBuffer.channels[c][i] =
                   encodeRun.assembled.channels[c][encodeRun.assembled.length + 1 - i]
  /\ (/\ encodeRun.pc = "done" /\ encodeRun.reversed
      /\ decodeRun.pc # "idle" /\ decodeRun.reversed
      /\ decodeRun.audioBuffer = encodeRun.finalBuffer) =>
       decodeRun.workingBuffer = encodeRun.assembled
  /\ (editor.pc = "done" /\ editor.isReversed) =>
       /\ Len(editor.reorderedSegments) = Len(editor.segments)
       /\ \A i \in 1..Len(editor.segments) :
            editor.reorderedSegments[i] =
              EditorReorderSegments(editor.segments, editor.encodingType)
                [Len(editor.segments) + 1 - i]

C10_Witness ==
  /\ encodeRun.pc = "done" /\ encodeRun.reversed
  /\ decodeRun.pc = "segmented" /\ decodeRun.reversed
  /\ decodeRun.audioBuffer = encodeRun.finalBuffer
  /\ encodeRun.assembled.length >= 4
  /\ encodeRun.finalBuffer # encodeRun.assembled
  /\ decodeRun.workingBuffer = encodeRun.assembled

\* the ranges the parameters of an encode request are to be in
ValidRunParameters(run) ==
  /\ ~IsNaN(run.interval)
  /\ ~NumLt(run.interval, MinInterval)
  /\ ~NumGt(run.interval, MaxInterval)
  /\ run.type = "split" =>
       /\ ~IsNaN(run.parts)
       /\ ~NumLt(run.parts, MinParts)
       /\ ~NumGt(run.parts, MaxParts)

\* C11: an encode request with an interval <= 0 or outside [0.001, 10], or with
\* Split parts outside 2..10, fails before any segment is created: no encode
\* request is in or past createAudioSegments with such parameters.
C11_EagerValidation ==
  encodeRun.pc # "idle" => ValidRunParameters(encodeRun)

\* C12: when parseEncodingCode returns false for the code entered, the decoding
\* type, the decode parts, the decode interval and the decode reverse flag keep
\* the values they had before the call.
C12_RejectedParseLeavesState ==
  [][(decodeInputCode' # decodeInputCode /\ decodeInputCode' # <<>> /\ ~isValidCode')
       => UNCHANGED <<decodingType, decodeNumberOfParts, decodeInterval,
                      isDecodeReversed>>]_vars

C12_Witness ==
  /\ decodeInputCode = <<"s", "b", "5", "b", "0", ".", "2", "b", "x">>
  /\ ~isValidCode
  /\ decodingType = "oddEven"
  /\ decodeInterval = Dec(2, 10)
  /\ isDecodeReversed

\* the decode parameters p (type, parts, interval, reversed) are the ones the
\* code denotes; an OddEven code denotes no parts
DenotedBy(code, type, parts, intervalValue, reversed) ==
  /\ code # <<>>
  /\ ParseCode(code).ok
  /\ type = ParseCode(code).type
  /\ intervalValue = ParseCode(code).interval
  /\ reversed = ParseCode(code).reversed
  /\ ParseCode(code).setsParts => parts = ParseCode(code).parts

SplitApplied == permPc \in {"forward", "inverse"} /\ encodingType = "split"

\* label x comes before label y when k blocks of size ceil(n / k) are read
\* round-robin: by offset in the block first, by block second
RoundRobinBefore(x, y, n, k) ==
  LET size == CeilDiv(n, k)
  IN  \/ x % size < y % size
      \/ x % size = y % size /\ x \div size < y \div size

\* C14: the Split forward reordering cuts the n segments into k contiguous
\* blocks of size ceil(n/k) and reads them round-robin, skipping exhausted
\* blocks: its output holds every segment exactly once; for n = 6, k = 3 it is
\* [0,2,4,1,3,5] and the inverse restores [0,1,2,3,4,5].
C14_SplitForwardOrder ==
  SplitApplied =>
    LET n == Len(segments)
        k == numberOfParts.num
    IN  /\ Len(reorderedSegments) = n
        /\ \A x \in 0..(n - 1) :
             Cardinality({i \in 1..Len(reorderedSegments) : reorderedSegments[i] = x}) = 1
        /\ \A i, j \in 1..Len(reorderedSegments) :
             i < j => RoundRobinBefore(reorderedSegments[i], reorderedSegments[j], n, k)
        /\ (n = 6 /\ k = 3) =>
             /\ reorderedSegments = <<0, 2, 4, 1, 3, 5>>
             /\ permPc = "inverse" => restoredSegments = <<0, 1, 2, 3, 4, 5>>

C14_Witness ==
  /\ SplitApplied
  /\ permPc = "inverse"
  /\ numberOfParts = IntNum(3)
  /\ reorderedSegments = <<0, 2, 4, 1, 3, 5>>
  /\ restoredSegments = <<0, 1, 2, 3, 4, 5>>

\* C15: the Split inverse applied to n segments outputs n segments: every
\* finalPosition = (j mod k) * ceil(n/k) + floor(j/k), j in 0..n-1, is below n,
\* so the bounds check drops no segment and the compaction removes no slot.
C15_SplitInverseLosesNothing ==
  (permPc = "inverse" /\ decodingType = "split") =>
    LET n == Len(reorderedSegments)
        k == decodeNumberOfParts.num
    IN  /\ Len(restoredSegments) = n
        /\ \A j \in 0..(n - 1) : SplitFinalPosition(j, n, k) < n

\* C16: no two distinct positions j1, j2 in 0..n-1 get the same finalPosition,
\* so the inverse overwrites no segment it has placed: it outputs as many
\* segments as there are positions with a finalPosition below n.
C16_SplitInverseNoDoubleWrite ==
  (permPc = "inverse" /\ decodingType = "split") =>
    LET n == Len(reorderedSegments)
        k == decodeNumberOfParts.num
    IN  /\ \A j1, j2 \in 0..(n - 1) :
             j1 # j2 => SplitFinalPosition(j1, n, k) # SplitFinalPosition(j2, n, k)
        /\ Len(restoredSegments) =
             Cardinality({j \in 0..(n - 1) : SplitFinalPosition(j, n, k) < n})
        /\ \A j \in 0..(n - 1) :
             SplitFinalPosition(j, n, k) < n =>
               \E i \in 1..Len(restoredSegments) :
                 restoredSegments[i] = reorderedSegments[j + 1]

C16_Witness ==
  /\ permPc = "inverse"
  /\ decodingType = "split"
  /\ decodeNumberOfParts = IntNum(3)
  /\ Len(reorderedSegments) = 7
  /\ Len(restoredSegments) < 7

\* C17: with 2 <= k <= 10 and k >= n > 0 every block holds at most one segment,
\* the Split forward reordering is the identity, and forward followed by
\* inverse with the same k gives back the original order.
C17_DegenerateSplit ==
  (SplitApplied /\ Len(segments) > 0 /\ numberOfParts.num >= Len(segments)) =>
    /\ CeilDiv(Len(segments), numberOfParts.num) = 1
    /\ reorderedSegments = segments
    /\ permPc = "inverse" => restoredSegments = segments

C17_Witness ==
  /\ SplitApplied
  /\ permPc = "inverse"
  /\ Len(segments) = 5
  /\ numberOfParts = IntNum(7)
  /\ restoredSegments = segments

\* a non-empty string of decimal digits
IsIntegerNumeral(str) ==
  /\ str # <<>>
  /\ \A i \in 1..Len(str) : str[i] \in Digits

\* digits with at most one decimal point and at least one digit
IsDecimalNumeral(str) ==
  /\ \A i \in 1..Len(str) : str[i] \in Digits \cup {"."}
  /\ Cardinality({i \in 1..Len(str) : str[i] = "."}) <= 1
  /\ \E i \in 1..Len(str) : str[i] \in Digits

\* the grammar <type><partsToken>b<intervalToken><reverseFlag> on the three
\* fields between the 'b' separators
FieldsMatchGrammar(type, partsToken, intervalAndFlag) ==
  /\ intervalAndFlag # <<>>
  /\ LastCharacter(intervalAndFlag) \in {"t", "f"}
  /\ IsDecimalNumeral(AllButLast(intervalAndFlag))
  /\ ~NumLt(parseFloat(AllButLast(intervalAndFlag)), MinInterval)
  /\ ~NumGt(parseFloat(AllButLast(intervalAndFlag)), MaxInterval)
  /\ \/ /\ type = <<"s">>
        /\ IsIntegerNumeral(partsToken)
        /\ DigitsValue(partsToken) \in 2..10
     \/ /\ type = <<"o", "e">>
        /\ partsToken = <<>>

MatchesGrammar(code) ==
  /\ Len(SplitOn(code, "b")) = 3
  /\ FieldsMatchGrammar(SplitOn(code, "b")[1], SplitOn(code, "b")[2],
                        SplitOn(code, "b")[3])

\* C18: parseEncodingCode returns true for a string if and only if the string
\* matches the grammar: type "s" with an integer numeral in 2..10 or type "oe"
\* with an empty parts field, a decimal numeral in [0.001, 10], a last character
\* 't' or 'f'; no string with extra characters in the parts or interval field is
\* accepted.
C18_AcceptsExactlyGrammar ==
  decodeInputCode # <<>> => (isValidCode <=> MatchesGrammar(decodeInputCode))

\* what the call computes when nothing runs between its tasks: the segments of
\* its own buffer under its own parameters, reordered and assembled in one go
UninterruptedSegments(run) == createAudioSegments(run.workingBuffer, run.interval)

UninterruptedAssembly(run, kind) ==
  processInBatches(
    IF kind = "encode"
      THEN EncodeReorder(UninterruptedSegments(run), run.type, run.parts)
      ELSE DecodeReorder(UninterruptedSegments(run), run.type, run.parts),
    run.workingBuffer.numberOfChannels, run.workingBuffer.sampleRate)

UninterruptedResult(run, kind) ==
  IF kind = "encode" /\ run.reversed
    THEN reverseAudioBuffer(UninterruptedAssembly(run, kind))
    ELSE UninterruptedAssembly(run, kind)

\* the call in flight agrees, as far as it has come, with the uninterrupted one
AgreesWithUninterrupted(run, kind) ==
  /\ ~run.readCleared
  /\ run.pc = "loop" => run.segments = SubSeq(UninterruptedSegments(run), 1, run.next)
  /\ run.pc = "batches" =>
       LET whole == UninterruptedAssembly(run, kind)
       IN  /\ run.assembled.length = whole.length
           /\ \A c \in 1..run.assembled.numberOfChannels :
                SubSeq(run.assembled.channels[c], 1, run.writePosition)
                  = SubSeq(whole.channels[c], 1, run.writePosition)
  /\ run.pc = "done" => run.finalBuffer = UninterruptedResult(run, kind)

\* C19: the yields to the event loop (after every 100 segments in
\* createAudioSegments, after every batch of 50 in processInBatches) let edits
\* of the parameters and tasks of the other call run in between, and still
\* each call works on the parameters and the buffer it started with, reads no
\* segment data that was cleared, and ends with the result of the
\* uninterrupted call; the published audio is that result.
C19_InterleavingIndependence ==
  /\ AgreesWithUninterrupted(encodeRun, "encode")
  /\ AgreesWithUninterrupted(decodeRun, "decode")
  /\ encodeRun.pc = "done" => encodedAudio.buffer = encodeRun.finalBuffer
  /\ decodeRun.pc = "done" => decodedAudio.buffer = decodeRun.finalBuffer

\* an encode call between two batches whose interval was edited after the click,
\* while a decode call waits in the yield of createAudioSegments
C19_Witness ==
  /\ encodeRun.pc = "batches"
  /\ encodeRun.next = BATCH_SIZE
  /\ Len(encodeRun.order) > 2 * BATCH_SIZE
  /\ interval # encodeRun.interval
  /\ decodeRun.pc = "loop"
  /\ decodeRun.next = 1

\* C20: every request finishes: a request in flight (isProcessing or isDecoding
\* true) is never in a loop of createAudioSegments that has no last iteration,
\* so that it can still reach its catch / finally and put the flag back to false.
C20_EveryRequestFinishes ==
  /\ isProcessing =>
       /\ ~LoopsForever(encodeRun.audioBuffer, encodeRun.interval)
       /\ encodeRun.pc # "segmenting"
  /\ isDecoding =>
       /\ ~LoopsForever(decodeRun.workingBuffer, decodeRun.interval)
       /\ decodeRun.pc # "segmenting"

\* C21: whenever the encoding type is Split or OddEven, after any edits of the
\* parts, interval and reverse inputs, the code generateEncodingCode returns is
\* accepted by parseEncodingCode, and the parts and the interval that reach the
\* code are within 2..10 and [0.001, 10].
C21_ShownCodeDecodable ==
  encodingType \in {"split", "oddEven"} =>
    /\ ParseCode(generateEncodingCode).ok
    /\ ~IsNaN(interval) /\ ~NumLt(interval, MinInterval) /\ ~NumGt(interval, MaxInterval)
    /\ encodingType = "split" =>
         ~IsNaN(numberOfParts) /\ ~NumLt(numberOfParts, MinParts)
           /\ ~NumGt(numberOfParts, MaxParts)

====
